---------------------------- MODULE Spec2Model ----------------------------
(***************************************************************************)
(* A model of apidoc's document builder (Doc.parseAPI / Doc.getOperation,  *)
(* src/unnamed/part_000) and of its concurrent block extraction            *)
(* (parseInputs / Input.parseFile and the PHP here-doc Blocker,            *)
(* src/internal/lang/php.go).                                              *)
(*                                                                         *)
(* Text is modelled as a sequence of chunks.  A chunk is either one        *)
(* significant byte ("<", "'", ";", "/", "*", " ", the line feed NL) or a  *)
(* run of bytes none of which is significant to the code that reads it     *)
(* (a word such as "GET", a here-doc tag such as "A").                     *)
(***************************************************************************)
EXTENDS Integers, Sequences, FiniteSets

\* ------------------------------------------------------------------------
\* Bounds of the model
\* ------------------------------------------------------------------------

\* Number of tasks that call Doc.parseAPI concurrently (specification SpecDoc).
NumTasks == 3

\* Capacity of the blocks channel handed to parseInputs.
ChanCap == 1

\* The longest tag stream (tags of one block) the parser is run on.
MaxTags == 3

\* How many items the @apiTags loop is followed for (it has no exit once it
\* has found a comma).
MaxLoop == 3

\* ------------------------------------------------------------------------
\* Generic helpers
\* ------------------------------------------------------------------------

Nil == 0

NL == "\n"

Min(a, b) == IF a < b THEN a ELSE b

\* s[from+1 .. to] for byte offsets from <= to (Go's s[from:to]).
Slice(s, from, to) == SubSeq(s, from + 1, to)

\* strings.ToUpper, mutated: the string is left as it is written.
ToUpper_m(s) == s

\* Go's strings.ToUpper on one chunk: the spellings of the words that occur
\* as a method, every other chunk that is upper-cased holding no lower-case
\* letter.
ToUpperChunk(c) ==
    CASE c \in {"GET", "get", "Get", "gEt"}    -> "GET"
      [] c \in {"POST", "post", "Post"}        -> "POST"
      [] c \in {"PUT", "put", "pUT"}           -> "PUT"
      [] c \in {"DELETE", "delete", "Delete"}  -> "DELETE"
      [] c \in {"PATCH", "patch"}              -> "PATCH"
      [] c \in {"OPTIONS", "options"}          -> "OPTIONS"
      [] c \in {"HEAD", "head", "Head"}        -> "HEAD"
      [] c \in {"TRACE", "trace", "tracE"}     -> "TRACE"
      [] c \in {"FOO", "foo"}                  -> "FOO"
      [] c \in {"GETS", "gets"}                -> "GETS"
      [] OTHER -> c

ToUpper(s) == [i \in 1..Len(s) |-> ToUpperChunk(s[i])]

\* Offset (0-based) of the first sep at or after offset from, Len(s) if none.
RECURSIVE IndexFrom(_, _, _)
IndexFrom(s, sep, from) ==
    IF from >= Len(s) THEN Len(s)
    ELSE IF s[from + 1] = sep THEN from
    ELSE IndexFrom(s, sep, from + 1)

\* Go's strings.SplitN(s, sep, n) for n >= 1: at most n fields, the last one
\* holding the unsplit remainder.
RECURSIVE SplitN(_, _, _)
SplitN(s, sep, n) ==
    LET i == IndexFrom(s, sep, 0)
    IN  IF n <= 1 \/ i = Len(s) THEN <<s>>
        ELSE <<Slice(s, 0, i)>> \o SplitN(Slice(s, i + 1, Len(s)), sep, n - 1)

\* ------------------------------------------------------------------------
\* The document  (types.Doc, openapi.PathItem, openapi.Operation)
\* ------------------------------------------------------------------------

Slots == {"Get", "Delete", "Post", "Put", "Patch", "Options", "Head", "Trace"}

\* &openapi.PathItem{}: every operation pointer nil.
EmptyPathItem == [m \in Slots |-> Nil]

\* &openapi.Operation{}
EmptyOperation ==
    [Description |-> "", OperationID |-> "", RequestBody |-> FALSE, Responses |-> FALSE]


\* The switch of getOperation, mutated: FOO is taken for GET.
MethodSlot_m(m) ==
    CASE m = <<"GET">>     -> "Get"
      [] m = <<"FOO">>     -> "Get"
      [] m = <<"DELETE">>  -> "Delete"
      [] m = <<"POST">>    -> "Post"
      [] m = <<"PUT">>     -> "Put"
      [] m = <<"PATCH">>   -> "Patch"
      [] m = <<"OPTIONS">> -> "Options"
      [] m = <<"HEAD">>    -> "Head"
      [] m = <<"TRACE">>   -> "Trace"
      [] OTHER -> ""

\* The switch of getOperation: the slot of an upper-cased method, "" when no
\* case matches.
MethodSlot(m) ==
    CASE m = <<"GET">>     -> "Get"
      [] m = <<"DELETE">>  -> "Delete"
      [] m = <<"POST">>    -> "Post"
      [] m = <<"PUT">>     -> "Put"
      [] m = <<"PATCH">>   -> "Patch"
      [] m = <<"OPTIONS">> -> "Options"
      [] m = <<"HEAD">>    -> "Head"
      [] m = <<"TRACE">>   -> "Trace"
      [] OTHER -> ""

\* The guard `path.Get != nil` (and its seven siblings), mutated: never taken.
SlotOccupied_m(item, slot) == FALSE

\* The guard `path.Get != nil` (and its seven siblings).
SlotOccupied(item, slot) == item[slot] # Nil

\* Doc.getOperation between Lock and Unlock.  d is the document
\* [PathsNil, Paths], id the address a new Operation would get.  The result
\* holds the document after the call, the returned pointer and the error.
GetOperation(d, api, id) ==
    LET d1   == [d EXCEPT !.PathsNil = FALSE]
        strs == SplitN(api.API, " ", 3)
    IN  IF Len(strs) # 3
        THEN [doc |-> d1, op |-> Nil, err |-> "ErrArgNotEnough", new |-> FALSE]
        ELSE
          LET key   == strs[2]
              found == key \in DOMAIN d1.Paths
              paths == IF found THEN d1.Paths
                       ELSE [k \in DOMAIN d1.Paths \cup {key} |->
                               IF k = key THEN EmptyPathItem ELSE d1.Paths[k]]
              d2    == [d1 EXCEPT !.Paths = paths]
              slot  == MethodSlot(ToUpper(strs[1]))
          IN  IF slot = ""
              THEN [doc |-> d2, op |-> Nil, err |-> "ErrInvalidMethod", new |-> FALSE]
              ELSE IF SlotOccupied(paths[key], slot)
              THEN [doc |-> d2, op |-> Nil, err |-> "ErrDuplicateRoute", new |-> FALSE]
              ELSE [doc |-> [d2 EXCEPT !.Paths[key][slot] = id],
                    op |-> id, err |-> "", new |-> TRUE]

\* Doc.parseAPI after getOperation succeeded: the fields copied into *o.
FillOperation(api) ==
    [Description |-> api.Description, OperationID |-> api.OperationID,
     RequestBody |-> TRUE, Responses |-> TRUE]

\* The address of the next allocated Operation.
NewOp(heap) == Cardinality(DOMAIN heap) + 1

\* The heap after `&openapi.Operation{}` was allocated at id.
Alloc(heap, id) ==
    [i \in DOMAIN heap \cup {id} |-> IF i = id THEN EmptyOperation ELSE heap[i]]

\* The document as a value: every occupied slot with the content of its
\* operation (addresses left out).
DocView(d, heap) ==
    [k \in DOMAIN d.Paths |->
        [s \in Slots |-> IF d.Paths[k][s] = Nil THEN <<>> ELSE <<heap[d.Paths[k][s]]>>]]

\* The occupied (path, slot) pairs of a document.
Routes(d) == {<<k, s>> \in (DOMAIN d.Paths) \X Slots : d.Paths[k][s] # Nil}


\* ------------------------------------------------------------------------
\* The Lexer  (lang.Lexer: AtEOF, match, line, Position, Block)
\* ------------------------------------------------------------------------

\* Lexer.AtEOF
AtEOF(data, pos) == pos >= Len(data)

\* Lexer.match: the bytes at pos equal lit (the caller advances pos by
\* Len(lit) when they do).
Match(data, pos, lit) ==
    /\ pos + Len(lit) <= Len(data)
    /\ Slice(data, pos, pos + Len(lit)) = lit

\* Lexer.line: the bytes from pos to the next line feed, pos not advanced.
LineRemainder(data, pos) == Slice(data, pos, IndexFrom(data, NL, pos))

\* The line number (from 0) of offset pos: the line feeds before it.
LineOf(data, pos) == Cardinality({i \in 1..Min(pos, Len(data)) : data[i] = NL})

\* Lexer.Position / core.Position at offset pos.
PositionAt(data, pos) == [Line |-> LineOf(data, pos), Offset |-> pos]

\* ------------------------------------------------------------------------
\* Blockers  (lang.Blocker; phpDocBlock of src/internal/lang/php.go)
\* ------------------------------------------------------------------------

\* const phpHerodoc, phpNowdoc
phpHerodoc == 1
phpNowdoc == 2

HereOpen == <<"<", "<", "<">>
Quote == "'"

\* newPHPDocBlock(): token1 and token2 are empty strings.
NewPHPDocBlock == [doctype |-> phpHerodoc, token1 |-> <<>>, token2 |-> <<>>]

\* The test `token[0] == '\'' && token[len(token)-1] == '\''`.
IsQuoted(token) == token[1] = Quote /\ token[Len(token)] = Quote

\* phpDocBlock.BeginFunc, mutated: the statement `l.pos -= 3` is left out.
PHPBeginFunc_m(data, pos) ==
    IF ~Match(data, pos, HereOpen)
    THEN [ok |-> FALSE, pos |-> pos, panic |-> FALSE, nowdoc |-> FALSE, token |-> <<>>]
    ELSE
      LET p3    == pos + 3
          token == LineRemainder(data, p3)
      IN  IF Len(token) = 0
          THEN [ok |-> FALSE, pos |-> p3, panic |-> FALSE, nowdoc |-> FALSE,
                token |-> <<>>]
          ELSE IF IsQuoted(token)
          THEN IF 1 > Len(token) - 1
               THEN [ok |-> FALSE, pos |-> p3, panic |-> TRUE, nowdoc |-> TRUE,
                     token |-> <<>>]
               ELSE [ok |-> TRUE, pos |-> p3, panic |-> FALSE, nowdoc |-> TRUE,
                     token |-> Slice(token, 1, Len(token) - 1)]
          ELSE [ok |-> TRUE, pos |-> p3, panic |-> FALSE, nowdoc |-> FALSE,
                token |-> token]

\* phpDocBlock.BeginFunc at offset pos.  ok: its result; pos: the lexer
\* position it leaves; panic: the slice token[1:len(token)-1] is out of
\* range; nowdoc: b.doctype was assigned; token: the tag it stores in
\* token1 and token2 when ok.
PHPBeginFunc(data, pos) ==
    IF ~Match(data, pos, HereOpen)
    THEN [ok |-> FALSE, pos |-> pos, panic |-> FALSE, nowdoc |-> FALSE, token |-> <<>>]
    ELSE
      LET p3    == pos + 3
          token == LineRemainder(data, p3)
      IN  IF Len(token) = 0
          THEN [ok |-> FALSE, pos |-> p3 - 3, panic |-> FALSE, nowdoc |-> FALSE,
                token |-> <<>>]
          ELSE IF IsQuoted(token)
          THEN IF 1 > Len(token) - 1
               THEN [ok |-> FALSE, pos |-> p3, panic |-> TRUE, nowdoc |-> TRUE,
                     token |-> <<>>]
               ELSE [ok |-> TRUE, pos |-> p3, panic |-> FALSE, nowdoc |-> TRUE,
                     token |-> Slice(token, 1, Len(token) - 1)]
          ELSE [ok |-> TRUE, pos |-> p3, panic |-> FALSE, nowdoc |-> FALSE,
                token |-> token]

\* b.token1 = "\n" + token + "\n"
Token1(token) == <<NL>> \o token \o <<NL>>

\* b.token2 = "\n" + token + ";\n"
Token2(token) == <<NL>> \o token \o <<";", NL>>

\* The block comment Blocker: its markers.
CommentOpen == <<"/", "*">>
CommentClose == <<"*", "/">>

\* Offset of the first CommentClose at or after pos, Len(data) + 1 if none.
RECURSIVE FindClose(_, _)
FindClose(data, pos) ==
    IF pos + 2 > Len(data) THEN Len(data) + 1
    ELSE IF Match(data, pos, CommentClose) THEN pos
    ELSE FindClose(data, pos + 1)

\* The fixed stripping rule on one line: leading blanks, then one leading
\* "*", then one blank.
RECURSIVE TrimLeft(_)
TrimLeft(line) ==
    IF Len(line) > 0 /\ line[1] = " " THEN TrimLeft(Tail(line)) ELSE line

StripLine(line) ==
    LET a == TrimLeft(line)
        b == IF Len(a) > 0 /\ a[1] = "*" THEN Tail(a) ELSE a
    IN  IF Len(b) > 0 /\ b[1] = " " THEN Tail(b) ELSE b

\* The stripped content (data) of the comment text between the markers.
RECURSIVE Strip(_)
Strip(content) ==
    LET i == IndexFrom(content, NL, 0)
    IN  IF i = Len(content) THEN StripLine(content)
        ELSE StripLine(Slice(content, 0, i)) \o <<NL>>
                \o Strip(Slice(content, i + 1, Len(content)))

\* The block comment's EndFunc, the comment having opened at offset start
\* and the lexer standing at pos: (raw, data, found) and the position left.
CommentEndFunc(data, start, pos) ==
    LET c == FindClose(data, pos)
    IN  IF c > Len(data)
        THEN [ok |-> FALSE, pos |-> Len(data), raw |-> <<>>, data |-> <<>>]
        ELSE [ok |-> TRUE, pos |-> c + 2, raw |-> Slice(data, start, c + 2),
              data |-> Strip(Slice(data, pos, c))]

\* Lexer.Block: from pos on, ask every Blocker's BeginFunc in registration
\* order (the here-doc Blocker, then the block comment); the first that
\* answers true wins.  kind is "none" at EOF and "panic" when BeginFunc
\* panicked; start is the position the winning BeginFunc was asked at.
RECURSIVE FindBlock(_, _)
FindBlock(data, pos) ==
    IF AtEOF(data, pos)
    THEN [kind |-> "none", start |-> pos, pos |-> pos, token |-> <<>>, nowdoc |-> FALSE]
    ELSE
      LET b == PHPBeginFunc(data, pos)
      IN  IF b.panic
          THEN [kind |-> "panic", start |-> pos, pos |-> b.pos, token |-> <<>>,
                nowdoc |-> b.nowdoc]
          ELSE IF b.ok
          THEN [kind |-> "php", start |-> pos, pos |-> b.pos, token |-> b.token,
                nowdoc |-> b.nowdoc]
          ELSE IF Match(data, b.pos, CommentOpen)
          THEN [kind |-> "comment", start |-> b.pos, pos |-> b.pos + 2, token |-> <<>>,
                nowdoc |-> FALSE]
          ELSE FindBlock(data, b.pos + 1)

\* ------------------------------------------------------------------------
\* State
\* ------------------------------------------------------------------------

VARIABLES
    doc,        \* the Doc: [PathsNil, Paths], Paths a map path -> PathItem
    heap,       \* the allocated openapi.Operation values, by address
    locker,     \* doc.locker: Nil, or the task holding it
    lockOrder,  \* the tasks in the order they acquired doc.locker
    tpc,        \* per task: its position in Doc.parseAPI
    tapi,       \* per task: the *API it passes
    terr,       \* per task: the error parseAPI returns ("" is nil)
    to,         \* per task: the local o of parseAPI
    files,      \* per URI: what uri.ReadAll / lang.NewLexer give
    pc,         \* per URI: the position of its parseFile goroutine
    lpos,       \* per URI: l.pos of its Lexer
    bstart,     \* per URI: the local pos of parseFile (offset the block opened at)
    out,        \* per URI: the spec.Block about to be sent
    tok,        \* the phpDocBlock shared through Input.blocks
    wg,         \* the WaitGroup counter of parseInputs
    mpc,        \* the position of the caller of parseInputs
    nspawn,     \* how many goroutines parseInputs has started
    chan,       \* the blocks channel's buffer
    closed,     \* the blocks channel is closed
    msgs,       \* per URI: the diagnostics parseFile handed to h.Error
    sent,       \* per URI: the blocks parseFile has sent, in order
    recv,       \* the blocks the consumer has received, in order
    cerrs,      \* the errors Doc.parseAPI returned to the consumer
    cpc,        \* the position of the consumer
    crashed,    \* a goroutine panicked: the process is gone
    run,        \* which run of the pipeline this is
    prevDoc,    \* the Document of the previous run, if any
    tags,       \* the tags of the block the parser reads (the lexer's stream)
    tpos,       \* how many of them l.tag() has handed out
    ppc,        \* which function of the parser is reading tags
    obj,        \* the api value p.parseAPI builds
    perr,       \* the error p.parseAPI returns
    reads,      \* which function read which tag, in order
    tdata,      \* the local `data` of the @apiTags loop
    wtree,      \* the file system below Dir: path -> "dir" or "file"
    wdir,       \* Input.Dir
    wrec,       \* Input.Recursive
    wq,         \* the paths filepath.Walk has still to visit, in order
    wuris,      \* the local `uris` of recursivePath
    wpc,        \* the position of recursivePath
    xentry,     \* the function of the XML decoder that was called
    xtoks,      \* the tokens p.Token() hands out, in order
    xpos,       \* how many of them it has handed out
    xstack,     \* the calls of the XML decoder that are running, innermost last
    xroot,      \* the local hasRoot of Decode
    xres        \* what the outermost call returned

docVars == <<doc, heap>>
taskVars == <<locker, lockOrder, tpc, tapi, terr, to>>
fileVars == <<pc, lpos, bstart, out>>
pipeVars == <<files, pc, lpos, bstart, out, tok, wg, mpc, nspawn, chan, closed, msgs,
              sent, recv, cerrs, cpc, crashed, run, prevDoc>>
parseVars == <<tags, tpos, ppc, obj, perr, reads, tdata>>

vars == <<doc, heap, locker, lockOrder, tpc, tapi, terr, to,
          files, pc, lpos, bstart, out, tok, wg, mpc, nspawn, chan, closed, msgs,
          sent, recv, cerrs, cpc, crashed, run, prevDoc,
          tags, tpos, ppc, obj, perr, reads, tdata,
          wtree, wdir, wrec, wq, wuris, wpc, xentry, xtoks, xpos, xstack, xroot, xres>>

walkVars == <<wtree, wdir, wrec, wq, wuris, wpc>>

xmlVars == <<xentry, xtoks, xpos, xstack, xroot, xres>>

\* recursivePath while it is not used.
IdleWalk ==
    /\ wtree = <<>>
    /\ wdir = <<>>
    /\ wrec = FALSE
    /\ wq = <<>>
    /\ wuris = <<>>
    /\ wpc = "idle"

\* The XML decoder while it is not used.
IdleXML ==
    /\ xentry = ""
    /\ xtoks = <<>>
    /\ xpos = 0
    /\ xstack = <<>>
    /\ xroot = FALSE
    /\ xres = ""

\* `obj := &api{}` of p.parseAPI: every field has its zero value.
EmptyAPI ==
    [method |-> <<>>, path |-> <<>>, summary |-> <<>>, group |-> <<>>, tags |-> <<>>,
     version |-> <<>>, deprecated |-> FALSE, params |-> <<>>, request |-> <<>>]

\* A nil error.
NoError == [key |-> "", arg |-> "", at |-> 0]

\* The parser while it is not used.
IdleParse ==
    /\ tags = <<>>
    /\ tpos = 0
    /\ ppc = "idle"
    /\ obj = EmptyAPI
    /\ perr = NoError
    /\ reads = <<>>
    /\ tdata = <<>>

\* o.paths of the Input: the URIs parseInputs starts a goroutine for.
Paths == <<"a.php", "b.php">>

URIs == {Paths[i] : i \in 1..Len(Paths)}

\* A file that reads and lexes.
File(data) == [err |-> "", data |-> data]

NoBlock == [File |-> "", Start |-> PositionAt(<<>>, 0), End |-> PositionAt(<<>>, 0),
            Data |-> <<>>, Raw |-> <<>>]

\* The pipeline before it is started (and while only the builder is used).
IdlePipe ==
    /\ pc = [u \in URIs |-> "idle"]
    /\ lpos = [u \in URIs |-> 0]
    /\ bstart = [u \in URIs |-> 0]
    /\ out = [u \in URIs |-> NoBlock]
    /\ tok = NewPHPDocBlock
    /\ wg = 0
    /\ mpc = "spawn"
    /\ nspawn = 0
    /\ chan = <<>>
    /\ closed = FALSE
    /\ msgs = [u \in URIs |-> <<>>]
    /\ sent = [u \in URIs |-> <<>>]
    /\ recv = <<>>
    /\ cerrs = <<>>
    /\ cpc = "recv"
    /\ crashed = FALSE
    /\ run = 1
    /\ prevDoc = <<>>

Tasks == 1..NumTasks

Api(s, d) == [API |-> s, Description |-> d, OperationID |-> d]

\* The API values the tasks pass to Doc.parseAPI.
TaskAPIs ==
    << Api(<<"GET", " ", "/x", " ", "one">>, "d1"),
       Api(<<"get", " ", "/x", " ", "two">>, "d2"),
       Api(<<"Post", " ", "/x", " ", "three">>, "d3"),
       Api(<<"FOO", " ", "/y", " ", "bad">>, "d4"),
       Api(<<"GET", " ", "/x">>, "d5"),
       Api(<<"delete", " ", "/y", " ", "gone", " ", "now">>, "d6") >>

\* The assignments of API values to tasks.  The tasks run the same code, so
\* every assignment is a renaming of one in which the tasks are numbered in
\* the order of TaskAPIs; only those are enumerated.
TaskInputs ==
    {f \in [Tasks -> 1..Len(TaskAPIs)] : \A t \in Tasks : \A u \in Tasks : t < u => f[t] <= f[u]}

\* A Doc after construction: OpenAPI.Paths is nil.
InitDocVars ==
    /\ doc = [PathsNil |-> TRUE, Paths |-> <<>>]
    /\ heap = <<>>

InitDoc ==
    /\ InitDocVars
    /\ locker = Nil
    /\ lockOrder = <<>>
    /\ \E f \in TaskInputs : tapi = [t \in Tasks |-> TaskAPIs[f[t]]]
    /\ tpc = [t \in Tasks |-> "call"]
    /\ terr = [t \in Tasks |-> ""]
    /\ to = [t \in Tasks |-> Nil]
    /\ files = [u \in URIs |-> File(<<>>)]
    /\ IdlePipe
    /\ IdleParse
    /\ IdleWalk
    /\ IdleXML

\* doc.locker.Lock() of getOperation.
Lock(t) ==
    /\ tpc[t] = "call"
    /\ locker = Nil
    /\ locker' = t
    /\ lockOrder' = Append(lockOrder, t)
    /\ tpc' = [tpc EXCEPT ![t] = "locked"]
    /\ UNCHANGED <<parseVars, walkVars, xmlVars, doc, heap, tapi, terr, to, pipeVars>>

\* The body of getOperation and its deferred doc.locker.Unlock().
GetOp(t) ==
    /\ tpc[t] = "locked"
    /\ locker = t
    /\ LET r == GetOperation(doc, tapi[t], NewOp(heap))
       IN  /\ doc' = r.doc
           /\ heap' = IF r.new THEN Alloc(heap, r.op) ELSE heap
           /\ to' = [to EXCEPT ![t] = r.op]
           /\ terr' = [terr EXCEPT ![t] = r.err]
    /\ locker' = Nil
    /\ tpc' = [tpc EXCEPT ![t] = "got"]
    /\ UNCHANGED <<parseVars, walkVars, xmlVars, lockOrder, tapi, pipeVars>>

\* The rest of Doc.parseAPI: return the error, or fill *o and return nil.
Return(t) ==
    /\ tpc[t] = "got"
    /\ heap' = IF terr[t] = "" THEN [heap EXCEPT ![to[t]] = FillOperation(tapi[t])]
               ELSE heap
    /\ tpc' = [tpc EXCEPT ![t] = "done"]
    /\ UNCHANGED <<parseVars, walkVars, xmlVars, doc, locker, lockOrder, tapi, terr, to, pipeVars>>

NextDoc == \E t \in Tasks : Lock(t) \/ GetOp(t) \/ Return(t)

SpecDoc == InitDoc /\ [][NextDoc]_vars


\* ------------------------------------------------------------------------
\* The pipeline: parseInputs, Input.parseFile, the consumer
\* ------------------------------------------------------------------------

\* The text a comment chunk stands for, as the API the parser hands to the
\* builder: "@1" is `@api GET /x one`, "@2" is `@api GET /x two`, "@3" is
\* `@api GET /y hi`.
ApiText ==
    [c \in {"@1", "@2", "@3"} |->
        CASE c = "@1" -> Api(<<"GET", " ", "/x", " ", "one">>, "one")
          [] c = "@2" -> Api(<<"GET", " ", "/x", " ", "two">>, "two")
          [] c = "@3" -> Api(<<"GET", " ", "/y", " ", "hi">>, "hi")]

\* The files of the Input.
FileInputs ==
    << File(<<"/", "*", "@1", "*", "/">>),
       File(<<"/", "*", "@2", "*", "/">>),
       File(<<"<", "<", "<", NL, "/", "*", "@3", NL>>),
       File(<<"/", "*", " ", "*", "/", "/", "*", "@3", "*", "/">>),
       File(<<"<", "<", "<", "A", NL, "B", NL, "/", "*", "@1", "*", "/", NL, "A", NL>>),
       File(<<"<", "<", "<", "'", "B", "'", NL, "B", ";", NL, "/", "*", "@2", "*", "/">>),
       File(<<"<", "<", "<", "'">>),
       [err |-> "ErrRead", data |-> <<>>],
       [err |-> "ErrLexer", data |-> <<>>] >>

\* The assignments of files to the URIs.  Every goroutine runs the same
\* code, so only the assignments in the order of FileInputs are enumerated.
PathInputs ==
    {f \in [1..Len(Paths) -> 1..Len(FileInputs)] :
        \A i \in 1..Len(Paths) : \A j \in 1..Len(Paths) : i < j => f[i] <= f[j]}

Init ==
    /\ InitDocVars
    /\ locker = Nil
    /\ lockOrder = <<>>
    /\ tapi = [t \in Tasks |-> TaskAPIs[1]]
    /\ tpc = [t \in Tasks |-> "done"]
    /\ terr = [t \in Tasks |-> ""]
    /\ to = [t \in Tasks |-> Nil]
    /\ \E f \in PathInputs : files = [u \in URIs |->
            FileInputs[f[CHOOSE i \in 1..Len(Paths) : Paths[i] = u]]]
    /\ IdlePipe
    /\ IdleParse
    /\ IdleWalk
    /\ IdleXML

Msg(u, line, key) == [File |-> u, Line |-> line, Key |-> key]

\* parseInputs: wg.Add(1) and the go statement for the next path.
Spawn ==
    /\ ~crashed
    /\ mpc = "spawn"
    /\ nspawn < Len(Paths)
    /\ nspawn' = nspawn + 1
    /\ wg' = wg + 1
    /\ pc' = [pc EXCEPT ![Paths[nspawn + 1]] = "start"]
    /\ UNCHANGED <<parseVars, walkVars, xmlVars, docVars, taskVars, files, lpos, bstart, out, tok, mpc, chan, closed,
                   msgs, sent, recv, cerrs, cpc, crashed, run, prevDoc>>

\* The guard of wg.Wait(), mutated: it does not wait.
WaitReturns_m == TRUE

\* The guard of wg.Wait(): the counter is zero.
WaitReturns == wg = 0

\* parseInputs: every goroutine is started; wg.Wait() returns and so does
\* parseInputs.
Wait ==
    /\ ~crashed
    /\ mpc = "spawn"
    /\ nspawn = Len(Paths)
    /\ WaitReturns
    /\ mpc' = "returned"
    /\ UNCHANGED <<parseVars, walkVars, xmlVars, docVars, taskVars, files, fileVars, tok, wg, nspawn, chan, closed,
                   msgs, sent, recv, cerrs, cpc, crashed, run, prevDoc>>

\* parseFile: uri.ReadAll and lang.NewLexer; on an error one diagnostic and
\* return.
ReadFile(u) ==
    /\ ~crashed
    /\ pc[u] = "start"
    /\ IF files[u].err # ""
       THEN /\ msgs' = [msgs EXCEPT ![u] = Append(@, Msg(u, 0, files[u].err))]
            /\ pc' = [pc EXCEPT ![u] = "ret"]
       ELSE /\ msgs' = msgs
            /\ pc' = [pc EXCEPT ![u] = "loop"]
    /\ lpos' = [lpos EXCEPT ![u] = 0]
    /\ UNCHANGED <<parseVars, walkVars, xmlVars, docVars, taskVars, files, bstart, out, tok, wg, mpc, nspawn, chan,
                   closed, sent, recv, cerrs, cpc, crashed, run, prevDoc>>

\* parseFile: the top of the loop, l.AtEOF() and l.Block().  When the
\* here-doc Blocker answers, its BeginFunc has stored doctype and token1 in
\* the shared phpDocBlock (token2 is stored by the next step).
NextBlock(u) ==
    /\ ~crashed
    /\ pc[u] = "loop"
    /\ LET b == FindBlock(files[u].data, lpos[u])
       IN  /\ pc' = [pc EXCEPT ![u] =
                        CASE b.kind = "php"     -> "token2"
                          [] b.kind = "comment" -> "endc"
                          [] b.kind = "panic"   -> "panic"
                          [] OTHER              -> "ret"]
           /\ lpos' = [lpos EXCEPT ![u] = b.pos]
           /\ bstart' = [bstart EXCEPT ![u] = b.start]
           /\ tok' = [doctype |-> IF b.nowdoc THEN phpNowdoc ELSE tok.doctype,
                      token1  |-> IF b.kind = "php" THEN Token1(b.token) ELSE tok.token1,
                      token2  |-> tok.token2]
           /\ crashed' = (b.kind = "panic")
    /\ UNCHANGED <<parseVars, walkVars, xmlVars, docVars, taskVars, files, out, wg, mpc, nspawn, chan, closed, msgs,
                   sent, recv, cerrs, cpc, run, prevDoc>>

\* phpDocBlock.BeginFunc: b.token2 = "\n" + token + ";\n", return true.
StoreToken2(u) ==
    /\ ~crashed
    /\ pc[u] = "token2"
    /\ tok' = [tok EXCEPT !.token2 = Token2(PHPBeginFunc(files[u].data, bstart[u]).token)]
    /\ pc' = [pc EXCEPT ![u] = "end1"]
    /\ UNCHANGED <<parseVars, walkVars, xmlVars, docVars, taskVars, files, lpos, bstart, out, wg, mpc, nspawn, chan,
                   closed, msgs, sent, recv, cerrs, cpc, crashed, run, prevDoc>>

\* The diagnostic of parseFile when EndFunc found no terminator, mutated: it
\* carries the line the lexer stopped at.
NotFoundEndFlag_m(u) == Msg(u, LineOf(files[u].data, lpos[u]), "ErrNotFoundEndFlag")

\* The diagnostic of parseFile when EndFunc found no terminator.
NotFoundEndFlag(u) == Msg(u, LineOf(files[u].data, bstart[u]), "ErrNotFoundEndFlag")

\* phpDocBlock.EndFunc: `case l.AtEOF()` and `case l.match(b.token1)` of one
\* turn of its loop, and what parseFile does with the result (raw is nil:
\* nothing is sent).
EndPHP1(u) ==
    /\ ~crashed
    /\ pc[u] = "end1"
    /\ IF AtEOF(files[u].data, lpos[u])
       THEN /\ msgs' = [msgs EXCEPT ![u] = Append(@, NotFoundEndFlag(u))]
            /\ pc' = [pc EXCEPT ![u] = "ret"]
            /\ lpos' = lpos
       ELSE IF Match(files[u].data, lpos[u], tok.token1)
       THEN /\ msgs' = msgs
            /\ pc' = [pc EXCEPT ![u] = "loop"]
            /\ lpos' = [lpos EXCEPT ![u] = @ + Len(tok.token1)]
       ELSE /\ msgs' = msgs
            /\ pc' = [pc EXCEPT ![u] = "end2"]
            /\ lpos' = lpos
    /\ UNCHANGED <<parseVars, walkVars, xmlVars, docVars, taskVars, files, bstart, out, tok, wg, mpc, nspawn, chan,
                   closed, sent, recv, cerrs, cpc, crashed, run, prevDoc>>

\* phpDocBlock.EndFunc: `case l.match(b.token2)` and `default: l.pos++`.
EndPHP2(u) ==
    /\ ~crashed
    /\ pc[u] = "end2"
    /\ IF Match(files[u].data, lpos[u], tok.token2)
       THEN /\ pc' = [pc EXCEPT ![u] = "loop"]
            /\ lpos' = [lpos EXCEPT ![u] = @ + Len(tok.token2)]
       ELSE /\ pc' = [pc EXCEPT ![u] = "end1"]
            /\ lpos' = [lpos EXCEPT ![u] = @ + 1]
    /\ UNCHANGED <<parseVars, walkVars, xmlVars, docVars, taskVars, files, bstart, out, tok, wg, mpc, nspawn, chan,
                   closed, msgs, sent, recv, cerrs, cpc, crashed, run, prevDoc>>

\* The test `len(raw) == 0` of parseFile, mutated: nothing is dropped.
RawIsEmpty_m(raw) == FALSE

\* The test `len(raw) == 0` of parseFile.
RawIsEmpty(raw) == Len(raw) = 0

\* The spec.Block parseFile builds, mutated: Start and End are exchanged.
MakeBlock_m(u, start, end, data, raw) ==
    [File |-> u, Start |-> PositionAt(files[u].data, end),
     End |-> PositionAt(files[u].data, start), Data |-> data, Raw |-> raw]

\* The spec.Block parseFile builds.
MakeBlock(u, start, end, data, raw) ==
    [File |-> u, Start |-> PositionAt(files[u].data, start),
     End |-> PositionAt(files[u].data, end), Data |-> data, Raw |-> raw]

\* parseFile on a block comment: EndFunc, then the diagnostic, the drop of
\* an empty raw, or the block to send.
EndComment(u) ==
    /\ ~crashed
    /\ pc[u] = "endc"
    /\ LET e == CommentEndFunc(files[u].data, bstart[u], lpos[u])
       IN  /\ lpos' = [lpos EXCEPT ![u] = e.pos]
           /\ IF ~e.ok
              THEN /\ msgs' = [msgs EXCEPT ![u] = Append(@, NotFoundEndFlag(u))]
                   /\ pc' = [pc EXCEPT ![u] = "ret"]
                   /\ out' = out
              ELSE IF RawIsEmpty(e.raw)
              THEN /\ msgs' = msgs
                   /\ pc' = [pc EXCEPT ![u] = "loop"]
                   /\ out' = out
              ELSE /\ msgs' = msgs
                   /\ pc' = [pc EXCEPT ![u] = "send"]
                   /\ out' = [out EXCEPT ![u] = MakeBlock(u, bstart[u], e.pos, e.data, e.raw)]
    /\ UNCHANGED <<parseVars, walkVars, xmlVars, docVars, taskVars, files, bstart, tok, wg, mpc, nspawn, chan, closed,
                   sent, recv, cerrs, cpc, crashed, run, prevDoc>>

\* parseFile: `blocks <- spec.Block{...}`.  The send waits for room in the
\* channel; on a closed channel it panics.
Send(u) ==
    /\ ~crashed
    /\ pc[u] = "send"
    /\ closed \/ Len(chan) < ChanCap
    /\ crashed' = closed
    /\ chan' = IF closed THEN chan ELSE Append(chan, out[u])
    /\ sent' = IF closed THEN sent ELSE [sent EXCEPT ![u] = Append(@, out[u])]
    /\ pc' = [pc EXCEPT ![u] = IF closed THEN "send" ELSE "loop"]
    /\ UNCHANGED <<parseVars, walkVars, xmlVars, docVars, taskVars, files, lpos, bstart, out, tok, wg, mpc, nspawn,
                   closed, msgs, recv, cerrs, cpc, run, prevDoc>>

\* The goroutine of parseInputs after parseFile returned: wg.Done().
Finish(u) ==
    /\ ~crashed
    /\ pc[u] = "ret"
    /\ wg' = wg - 1
    /\ pc' = [pc EXCEPT ![u] = "done"]
    /\ UNCHANGED <<parseVars, walkVars, xmlVars, docVars, taskVars, files, lpos, bstart, out, tok, mpc, nspawn, chan,
                   closed, msgs, sent, recv, cerrs, cpc, crashed, run, prevDoc>>

\* The caller: close(blocks) after parseInputs returned.
Close ==
    /\ ~crashed
    /\ mpc = "returned"
    /\ closed' = TRUE
    /\ mpc' = "closed"
    /\ UNCHANGED <<parseVars, walkVars, xmlVars, docVars, taskVars, files, fileVars, tok, wg, nspawn, chan, msgs,
                   sent, recv, cerrs, cpc, crashed, run, prevDoc>>

\* The API of a block, if its data holds an @api tag: <<api>> or <<>>.
BlockAPI(data) ==
    LET at == {i \in 1..Len(data) : data[i] \in DOMAIN ApiText}
    IN  IF at = {} THEN <<>>
        ELSE <<ApiText[data[CHOOSE i \in at : \A j \in at : i <= j]]>>

\* The consumer: receive one block, parse it and hand its API to
\* Doc.parseAPI (the lock is free: the consumer is the only caller).
Receive ==
    /\ ~crashed
    /\ cpc = "recv"
    /\ Len(chan) > 0
    /\ chan' = Tail(chan)
    /\ recv' = Append(recv, Head(chan))
    /\ LET a == BlockAPI(Head(chan).Data)
       IN  IF a = <<>>
           THEN UNCHANGED <<doc, heap, cerrs>>
           ELSE LET r == GetOperation(doc, a[1], NewOp(heap))
                IN  /\ doc' = r.doc
                    /\ heap' = IF r.new
                               THEN [Alloc(heap, r.op) EXCEPT ![r.op] = FillOperation(a[1])]
                               ELSE heap
                    /\ cerrs' = IF r.err = "" THEN cerrs
                                ELSE Append(cerrs, Msg(Head(chan).File, Head(chan).Start.Line, r.err))
    /\ UNCHANGED <<parseVars, walkVars, xmlVars, taskVars, files, fileVars, tok, wg, mpc, nspawn, closed, msgs, sent,
                   cpc, crashed, run, prevDoc>>

\* The consumer: the channel is closed and drained.
ConsumerExit ==
    /\ ~crashed
    /\ cpc = "recv"
    /\ Len(chan) = 0
    /\ closed
    /\ cpc' = "done"
    /\ UNCHANGED <<parseVars, walkVars, xmlVars, docVars, taskVars, files, fileVars, tok, wg, mpc, nspawn, chan, closed,
                   msgs, sent, recv, cerrs, crashed, run, prevDoc>>

\* The caller: the consumer has been awaited; the Document is the result.
Await ==
    /\ ~crashed
    /\ mpc = "closed"
    /\ cpc = "done"
    /\ mpc' = "done"
    /\ UNCHANGED <<parseVars, walkVars, xmlVars, docVars, taskVars, files, fileVars, tok, wg, nspawn, chan, closed,
                   msgs, sent, recv, cerrs, cpc, crashed, run, prevDoc>>

Next ==
    \/ Spawn \/ Wait \/ Close \/ Receive \/ ConsumerExit \/ Await
    \/ \E u \in URIs :
         \/ ReadFile(u) \/ NextBlock(u) \/ StoreToken2(u) \/ EndPHP1(u) \/ EndPHP2(u)
         \/ EndComment(u) \/ Send(u) \/ Finish(u)

Spec == Init /\ [][Next]_vars

\* The pipeline is run a second time on the same files: a new Document, a
\* new channel, the same Input (its Blockers are built once).
Restart ==
    /\ ~crashed
    /\ mpc = "done"
    /\ run = 1
    /\ run' = 2
    /\ prevDoc' = <<DocView(doc, heap)>>
    /\ doc' = [PathsNil |-> TRUE, Paths |-> <<>>]
    /\ heap' = <<>>
    /\ pc' = [u \in URIs |-> "idle"]
    /\ lpos' = [u \in URIs |-> 0]
    /\ bstart' = [u \in URIs |-> 0]
    /\ out' = [u \in URIs |-> NoBlock]
    /\ wg' = 0
    /\ mpc' = "spawn"
    /\ nspawn' = 0
    /\ chan' = <<>>
    /\ closed' = FALSE
    /\ msgs' = [u \in URIs |-> <<>>]
    /\ sent' = [u \in URIs |-> <<>>]
    /\ recv' = <<>>
    /\ cerrs' = <<>>
    /\ cpc' = "recv"
    /\ UNCHANGED <<parseVars, walkVars, xmlVars, taskVars, files, tok, crashed>>

NextTwice == Next \/ Restart

SpecTwice == Init /\ [][NextTwice]_vars

\* ------------------------------------------------------------------------
\* The API parser  (src/parser/api.go)
\* ------------------------------------------------------------------------

\* bytes.ToLower on a tag name, for the names that occur.
ToLowerName(n) ==
    CASE n \in {"@api", "@API"}                -> "@api"
      [] n \in {"@apiGroup", "@APIGROUP"}      -> "@apigroup"
      [] n \in {"@apiTags", "@apitags"}        -> "@apitags"
      [] n \in {"@apiVersion", "@ApiVersion"}  -> "@apiversion"
      [] n \in {"@apiDeprecated"}              -> "@apideprecated"
      [] n \in {"@apiRequest"}                 -> "@apirequest"
      [] n \in {"@apiResponse"}                -> "@apiresponse"
      [] n \in {"@apiQuery"}                   -> "@apiquery"
      [] n \in {"@apiParam"}                   -> "@apiparam"
      [] n \in {"@apiHeader"}                  -> "@apiheader"
      [] OTHER -> n

\* split(data, n): the fields between runs of blanks, at most n of them, the
\* last one holding the remainder as it stands.
RECURSIVE Split(_, _)
Split(data, n) ==
    LET d == TrimLeft(data)
        i == IndexFrom(d, " ", 0)
    IN  IF Len(d) = 0 THEN <<>>
        ELSE IF n <= 1 \/ i = Len(d) THEN <<d>>
        ELSE <<Slice(d, 0, i)>> \o Split(Slice(d, i + 1, Len(d)), n - 1)

\* bytes.IndexByte(s, c): the offset of the first c, -1 if there is none.
IndexByte(s, c) ==
    LET i == IndexFrom(s, c, 0) IN IF i = Len(s) THEN -1 ELSE i

\* version.SemVerValid, mutated: everything is valid.
SemVerValid_m(v) == TRUE

\* version.SemVerValid: X.Y.Z with an optional -pre and an optional +build.
IsNumber(c) == c \in {"0", "1", "2", "10"}
IsIdent(c) == c \in {"rc", "b7"} \/ IsNumber(c)
SemVerValid(v) ==
    /\ Len(v) >= 5
    /\ IsNumber(v[1]) /\ v[2] = "." /\ IsNumber(v[3]) /\ v[4] = "." /\ IsNumber(v[5])
    /\ LET rest == SubSeq(v, 6, Len(v))
       IN  \/ rest = <<>>
           \/ Len(rest) = 2 /\ rest[1] \in {"-", "+"} /\ IsIdent(rest[2])
           \/ /\ Len(rest) = 4
              /\ rest[1] = "-" /\ IsIdent(rest[2]) /\ rest[3] = "+" /\ IsIdent(rest[4])

\* tag.syntaxError(...) for the tag at index i of the stream.
SyntaxError(i, key, arg) == [key |-> key, arg |-> arg, at |-> i]

Tag(name, data) == [name |-> name, data |-> data]

\* The tags the streams are made of.
TagPool ==
    << Tag("@api", <<"GET", " ", "/x", " ", "hi">>),
       Tag("@api", <<"get", " ", "/x", " ", "hi">>),
       Tag("@API", <<"FOO", " ", "/x", " ", "hi">>),
       Tag("@api", <<"GET", " ", "/x">>),
       Tag("@apiGroup", <<"g">>),
       Tag("@APIGROUP", <<>>),
       Tag("@apiTags", <<"a">>),
       Tag("@apiTags", <<"a", ",", " ", "b", " ", ",", "c">>),
       Tag("@apitags", <<"a", ",">>),
       Tag("@apiVersion", <<"1", ".", "0", ".", "0">>),
       Tag("@ApiVersion", <<"1", ".", "0">>),
       Tag("@apiDeprecated", <<"old">>),
       Tag("@apiRequest", <<"json", " ", "object">>),
       Tag("@apiParam", <<"id", " ", "int", " ", "0", " ", "desc">>),
       Tag("@apiParam", <<"addr", ".", "city", " ", "string", " ", "required", " ", "city">>),
       Tag("@apiHeader", <<"h", " ", "desc">>),
       Tag("@apiResponse", <<"200", " ", "json", " ", "object">>),
       Tag("@foo", <<"bar">>) >>

\* The tag streams of at most MaxTags tags.
Streams ==
    UNION {[1..n -> {TagPool[k] : k \in 1..Len(TagPool)}] : n \in 0..MaxTags}

\* A parser and a lexer over one block's tags, before p.parseAPI(l).
InitParser ==
    /\ InitDocVars
    /\ locker = Nil
    /\ lockOrder = <<>>
    /\ tapi = [t \in Tasks |-> TaskAPIs[1]]
    /\ tpc = [t \in Tasks |-> "done"]
    /\ terr = [t \in Tasks |-> ""]
    /\ to = [t \in Tasks |-> Nil]
    /\ files = [u \in URIs |-> File(<<>>)]
    /\ IdlePipe
    /\ tags \in Streams
    /\ tpos = 0
    /\ ppc = "top"
    /\ obj = EmptyAPI
    /\ perr = NoError
    /\ reads = <<>>
    /\ tdata = <<>>
    /\ IdleWalk
    /\ IdleXML

\* What every step of the parser leaves alone.
ParserFrame == UNCHANGED <<docVars, taskVars, pipeVars, walkVars, xmlVars, tags>>

\* A `return tag.syntaxError(...)`: the error goes up to the caller of
\* p.parseAPI, o being the api value at that point.
Fail(o, e) ==
    /\ obj' = o
    /\ perr' = e
    /\ ppc' = "done"
    /\ tdata' = tdata

\* The loop goes on in function f with the api value o.
Continue(o, f) ==
    /\ obj' = o
    /\ perr' = perr
    /\ ppc' = f
    /\ tdata' = tdata

\* `obj.method = strings.ToUpper(string(data[0]))` for the data of an @api
\* tag.
ParsedMethod(data) == ToUpper(Split(data, 3)[1])

\* The RequestBody obj.parseRequest stores: one media type whose Schema has
\* its Type set and no other field (no properties).
RequestBody(mimetype, typ) ==
    <<[mimetype |-> mimetype, typ |-> typ, properties |-> {}]>>

\* p.parseAPI: one turn of its loop, `l.tag()` and the switch.  At eof it
\* returns nil.
ParserParseAPI ==
    /\ ppc = "top"
    /\ IF tpos = Len(tags)
       THEN /\ ppc' = "done"
            /\ UNCHANGED <<tpos, obj, perr, reads, tdata>>
       ELSE
         LET i    == tpos + 1
             tag  == tags[i]
             name == ToLowerName(tag.name)
         IN  /\ tpos' = i
             /\ reads' = Append(reads, [by |-> "top", tag |-> i])
             /\ CASE name = "@api" ->
                       IF obj.method # <<>> \/ obj.path # <<>> \/ obj.summary # <<>>
                       THEN Fail(obj, SyntaxError(i, "ErrDuplicateTag", "@api"))
                       ELSE LET data == Split(tag.data, 3)
                            IN  IF Len(data) # 3
                                THEN Fail(obj, SyntaxError(i, "ErrTagArgNotEnough", "@api"))
                                ELSE Continue([obj EXCEPT !.method = ParsedMethod(tag.data),
                                                          !.path = data[2],
                                                          !.summary = data[3]], "api")
                  [] name = "@apirequest" ->
                       LET data == Split(tag.data, 2)
                       IN  IF Len(data) # 2
                           THEN Fail(obj, SyntaxError(i, "ErrInvalidFormat", "@apiRequest"))
                           ELSE Continue([obj EXCEPT !.request =
                                            RequestBody(data[1], data[2])], "request")
                  [] name = "@apiresponse" -> Continue(obj, "top")
                  [] OTHER -> Fail(obj, SyntaxError(i, "ErrInvalidTag", tag.name))
    /\ ParserFrame

\* obj.parseRequest: one turn of its loop.  No case of its switch does
\* anything, the default included: the tag is dropped and the loop goes on
\* until eof, where the function returns nil to p.parseAPI.
ApiParseRequest ==
    /\ ppc = "request"
    /\ IF tpos = Len(tags)
       THEN /\ ppc' = "top"
            /\ UNCHANGED <<tpos, obj, perr, reads, tdata>>
       ELSE /\ tpos' = tpos + 1
            /\ reads' = Append(reads, [by |-> "request", tag |-> tpos + 1])
            /\ Continue(obj, "request")
    /\ ParserFrame

\* The openapi.Parameter that @apiQuery / @apiParam append.
Parameter(params, loc) ==
    [Name |-> params[1], In |-> loc, Type |-> params[2], Default |-> params[3],
     Description |-> params[4], Required |-> (loc = "path")]

\* obj.parseAPI: one turn of its loop.  The default of its switch does
\* nothing: the tag is dropped and the loop goes on until eof, where the
\* function returns nil to p.parseAPI.
ApiParseAPI ==
    /\ ppc = "api"
    /\ IF tpos = Len(tags)
       THEN /\ ppc' = "top"
            /\ UNCHANGED <<tpos, obj, perr, reads, tdata>>
       ELSE
         LET i    == tpos + 1
             tag  == tags[i]
             name == ToLowerName(tag.name)
         IN  /\ tpos' = i
             /\ reads' = Append(reads, [by |-> "api", tag |-> i])
             /\ CASE name = "@apigroup" ->
                       IF obj.group # <<>>
                       THEN Fail(obj, SyntaxError(i, "ErrDuplicateTag", "@apiGroup"))
                       ELSE Continue([obj EXCEPT !.group = tag.data], "api")
                  [] name = "@apitags" ->
                       IF Len(obj.tags) > 0
                       THEN Fail(obj, SyntaxError(i, "ErrDuplicateTag", "@apiTags"))
                       ELSE LET index == IndexByte(tag.data, ",")
                            IN  IF index <= 0
                                THEN Continue([obj EXCEPT !.tags = Append(@, tag.data)],
                                              "api")
                                ELSE /\ obj' = [obj EXCEPT !.tags =
                                                  Append(@, Slice(tag.data, 0, index))]
                                     /\ tdata' = Slice(tag.data, index + 1, Len(tag.data))
                                     /\ ppc' = "tagsloop"
                                     /\ perr' = perr
                  [] name = "@apiversion" ->
                       IF obj.version # <<>>
                       THEN Fail(obj, SyntaxError(i, "ErrDuplicateTag", "@apiVersion"))
                       ELSE IF ~SemVerValid(tag.data)
                       THEN Fail([obj EXCEPT !.version = tag.data],
                                 SyntaxError(i, "ErrInvalidFormat", "@apiVersion"))
                       ELSE Continue([obj EXCEPT !.version = tag.data], "api")
                  [] name = "@apideprecated" ->
                       Continue([obj EXCEPT !.deprecated = TRUE], "api")
                  [] name \in {"@apiquery", "@apiparam"} ->
                       LET params == Split(tag.data, 4)
                       IN  IF Len(params) # 4
                           THEN Fail(obj, SyntaxError(i, "ErrTagArgNotEnough",
                                        IF name = "@apiquery" THEN "@apiQuery"
                                        ELSE "@apiParam"))
                           ELSE Continue([obj EXCEPT !.params = Append(@,
                                    Parameter(params, IF name = "@apiquery" THEN "query"
                                                      ELSE "path"))], "api")
                  [] OTHER -> Continue(obj, "api")
    /\ ParserFrame

\* The @apiTags loop of obj.parseAPI from its second turn on: index is
\* computed on tag.data again, so it is still positive, and the turn appends
\* data[start:index] of the shortened data.  When index is beyond the length
\* of data the slice expression is in range only if the capacity of the
\* lexer's buffer allows it: it then reads the bytes that follow the tag
\* ("?"), and panics otherwise.  The loop has no other exit: obj.tags grows
\* until there is no memory left for it (MaxLoop items) and the runtime ends
\* the process.
TagsLoop ==
    /\ ppc = "tagsloop"
    /\ LET index == IndexByte(tags[tpos].data, ",")
       IN  IF Len(obj.tags) >= MaxLoop
           THEN /\ obj' = obj
                /\ ppc' = "oom"
           ELSE IF index <= Len(tdata)
           THEN /\ obj' = [obj EXCEPT !.tags = Append(@, Slice(tdata, 0, index))]
                /\ ppc' = "tagsloop"
           ELSE \/ /\ obj' = [obj EXCEPT !.tags = Append(@, tdata \o <<"?">>)]
                   /\ ppc' = "tagsloop"
                \/ /\ obj' = obj
                   /\ ppc' = "panic"
    /\ UNCHANGED <<tpos, perr, reads, tdata>>
    /\ ParserFrame

NextParser == ParserParseAPI \/ ApiParseAPI \/ ApiParseRequest \/ TagsLoop

SpecParser == InitParser /\ [][NextParser]_vars

\* The parser running: a function that can take its next step takes it.
FairSpecParser ==
    /\ InitParser /\ [][NextParser]_vars
    /\ WF_vars(ParserParseAPI) /\ WF_vars(ApiParseAPI) /\ WF_vars(ApiParseRequest)
    /\ WF_vars(TagsLoop)

\* ------------------------------------------------------------------------
\* Claims about the document builder (specification SpecDoc)
\* ------------------------------------------------------------------------

\* The fields of an API line as getOperation splits it.
Fields(a) == SplitN(a.API, " ", 3)

\* The API names a route: three fields and one of the eight methods.
NamesRoute(a) == Len(Fields(a)) = 3 /\ MethodSlot(ToUpper(Fields(a)[1])) # ""

\* The (path, slot) an API line names.
RouteOf(a) == <<Fields(a)[2], MethodSlot(ToUpper(Fields(a)[1]))>>

\* Position of task t in lockOrder (0 when it has not locked yet).
LockPos(t) ==
    IF \E i \in 1..Len(lockOrder) : lockOrder[i] = t
    THEN CHOOSE i \in 1..Len(lockOrder) : lockOrder[i] = t
    ELSE 0

\* The tasks whose getOperation has returned and that named route r.
Returned(r) ==
    {t \in Tasks : tpc[t] \in {"got", "done"} /\ NamesRoute(tapi[t]) /\ RouteOf(tapi[t]) = r}

\* C1 (route uniqueness): no step of any parseAPI / getOperation call, in
\* any interleaving, replaces or clears an occupied (path, method) slot, and
\* no operation sits in two slots.
C1_RouteUniqueness ==
    /\ [][\A k \in DOMAIN doc.Paths : \A s \in Slots :
            doc.Paths[k][s] # Nil =>
                k \in DOMAIN doc'.Paths /\ doc'.Paths[k][s] = doc.Paths[k][s]]_vars
    /\ [](\A r1 \in Routes(doc) : \A r2 \in Routes(doc) :
            doc.Paths[r1[1]][r1[2]] = doc.Paths[r2[1]][r2[2]] => r1 = r2)

\* C1 witness: a slot is occupied and a later call for the same route has
\* come back with the duplicate-route error.
C1_Witness ==
    \E t \in Tasks : \E u \in Tasks :
        /\ tpc[t] = "done" /\ tpc[u] = "done"
        /\ terr[t] = "" /\ terr[u] = "ErrDuplicateRoute"
        /\ RouteOf(tapi[t]) = RouteOf(tapi[u])
        /\ doc.Paths[RouteOf(tapi[t])[1]][RouteOf(tapi[t])[2]] = to[t]

\* C2 (first wins): among the calls for one route whose getOperation has
\* returned, exactly one succeeded, every other one failed with the
\* duplicate-route error, and the operation in the slot is the one of the
\* call that took the lock before every other call for that route.
C2_FirstWins ==
    \A t0 \in Tasks :
        LET r == RouteOf(tapi[t0])
            S == Returned(r)
        IN  (NamesRoute(tapi[t0]) /\ S # {}) =>
              \E w \in S :
                /\ terr[w] = ""
                /\ \A t \in S \ {w} : terr[t] = "ErrDuplicateRoute"
                /\ doc.Paths[r[1]][r[2]] = to[w]
                /\ to[w] # Nil
                /\ \A t \in Tasks :
                     (NamesRoute(tapi[t]) /\ RouteOf(tapi[t]) = r /\ LockPos(t) # 0)
                        => LockPos(w) <= LockPos(t)

\* C2 witness: three calls for GET /x (two spellings of the method) have
\* all returned, and the one that won is not the first task.
C2_Witness ==
    /\ \A t \in Tasks : tpc[t] = "done" /\ RouteOf(tapi[t]) = <<(<<"/x">>), "Get">>
    /\ NamesRoute(tapi[1])
    /\ tapi[1] # tapi[2]
    /\ terr[1] = "ErrDuplicateRoute"
    /\ terr[2] = ""
    /\ terr[3] = "ErrDuplicateRoute"

\* The eight methods of the enumeration.
Verbs == {"GET", "POST", "PUT", "DELETE", "PATCH", "OPTIONS", "HEAD", "TRACE"}

\* A word with its letters in lower case: two words are equal
\* case-insensitively when this makes them equal.
LowerWord(c) ==
    CASE c \in {"GET", "get", "Get", "gEt"}    -> "get"
      [] c \in {"POST", "post", "Post"}        -> "post"
      [] c \in {"PUT", "put", "pUT"}           -> "put"
      [] c \in {"DELETE", "delete", "Delete"}  -> "delete"
      [] c \in {"PATCH", "patch"}              -> "patch"
      [] c \in {"OPTIONS", "options"}          -> "options"
      [] c \in {"HEAD", "head", "Head"}        -> "head"
      [] c \in {"TRACE", "trace", "tracE"}     -> "trace"
      [] c \in {"FOO", "foo"}                  -> "foo"
      [] c \in {"GETS", "gets"}                -> "gets"
      [] OTHER -> c

\* The spellings the case tables know.
Spellings ==
    {"GET", "get", "Get", "gEt", "POST", "post", "Post", "PUT", "put", "pUT",
     "DELETE", "delete", "Delete", "PATCH", "patch", "OPTIONS", "options",
     "HEAD", "head", "Head", "TRACE", "trace", "tracE", "FOO", "foo", "GETS", "gets"}

\* The method field m of an API line spells verb V in some casing.
Spells(m, V) == Len(m) = 1 /\ LowerWord(m[1]) = LowerWord(V)

\* The method and the path of an API line.
MethodOf(a) == Fields(a)[1]
PathOf(a) == IF Len(Fields(a)) >= 2 THEN Fields(a)[2] ELSE <<>>

\* The slot of verb V at path k is empty in document d.
SlotEmpty(d, k, V) == k \notin DOMAIN d.Paths \/ d.Paths[k][MethodSlot(<<V>>)] = Nil

\* C13 as stated (method enumeration): a getOperation call succeeds exactly
\* when the method of its API, compared case-insensitively, is one of the
\* eight verbs and the slot of that verb at the path is empty; with any other
\* method it fails with the invalid-method error and installs nothing.
C13_MethodEnumeration ==
    [][\A t \in Tasks :
         (tpc[t] = "locked" /\ tpc'[t] = "got") =>
            LET a     == tapi[t]
                valid == \E V \in Verbs : Spells(MethodOf(a), V)
            IN  /\ (terr'[t] = "") <=>
                      \E V \in Verbs : Spells(MethodOf(a), V) /\ SlotEmpty(doc, PathOf(a), V)
                /\ ~valid => (terr'[t] = "ErrInvalidMethod" /\ Routes(doc') = Routes(doc))]_vars

\* C13 amended: the same for an API line of three space-separated fields
\* (method, path, summary), the accepted API's operation being installed in
\* the slot of its verb; a line of fewer fields fails with the
\* missing-argument error and installs nothing.
C13_MethodEnumerationOfThreeFields ==
    [][\A t \in Tasks :
         (tpc[t] = "locked" /\ tpc'[t] = "got") =>
            LET a     == tapi[t]
                valid == \E V \in Verbs : Spells(MethodOf(a), V)
            IN  IF Len(Fields(a)) = 3
                THEN /\ (terr'[t] = "") <=>
                           \E V \in Verbs :
                              Spells(MethodOf(a), V) /\ SlotEmpty(doc, PathOf(a), V)
                     /\ (terr'[t] = "") =>
                           \E V \in Verbs :
                              /\ Spells(MethodOf(a), V)
                              /\ to'[t] # Nil
                              /\ doc'.Paths[PathOf(a)][MethodSlot(<<V>>)] = to'[t]
                     /\ ~valid =>
                           (terr'[t] = "ErrInvalidMethod" /\ Routes(doc') = Routes(doc))
                ELSE terr'[t] = "ErrArgNotEnough" /\ Routes(doc') = Routes(doc)]_vars

\* C13 witness: a call whose method is written in lower case was accepted,
\* a call with the method FOO has failed with the invalid-method error, and a
\* call with a line of two fields has failed for its missing argument.
C13_Witness ==
    \E t \in Tasks : \E u \in Tasks : \E w \in Tasks :
        /\ tpc[t] = "done" /\ tpc[u] = "done" /\ tpc[w] = "done"
        /\ MethodOf(tapi[t]) = <<"get">> /\ terr[t] = ""
        /\ doc.Paths[PathOf(tapi[t])]["Get"] = to[t]
        /\ MethodOf(tapi[u]) = <<"FOO">> /\ terr[u] = "ErrInvalidMethod"
        /\ Len(Fields(tapi[w])) = 2 /\ terr[w] = "ErrArgNotEnough"

\* C15 (method normalization): every spelling of a verb is upper-cased to
\* the verb by the parser and selects the verb's slot in the builder; for a
\* call that has returned and whose line of three fields spells a verb, the
\* parser's method for that line is the upper-case verb, the call was
\* accepted or met a duplicate, the verb's slot at the path is occupied, and
\* no two calls spelling one verb for one path were both accepted.
C15_MethodNormalized ==
    /\ \A c \in Spellings : \A V \in Verbs :
          LowerWord(c) = LowerWord(V) =>
             /\ ParsedMethod(<<c, " ", "/x", " ", "hi">>) = <<V>>
             /\ MethodSlot(ToUpper(<<c>>)) = MethodSlot(<<V>>)
             /\ MethodSlot(<<V>>) # ""
    /\ \A t \in Tasks : \A V \in Verbs :
          (tpc[t] \in {"got", "done"} /\ Len(Fields(tapi[t])) = 3
             /\ Spells(MethodOf(tapi[t]), V)) =>
             /\ ParsedMethod(tapi[t].API) = <<V>>
             /\ terr[t] \in {"", "ErrDuplicateRoute"}
             /\ ~SlotEmpty(doc, PathOf(tapi[t]), V)
             /\ terr[t] = "" => doc.Paths[PathOf(tapi[t])][MethodSlot(<<V>>)] = to[t]
             /\ \A u \in Tasks \ {t} :
                   (tpc[u] \in {"got", "done"} /\ Len(Fields(tapi[u])) = 3
                      /\ Spells(MethodOf(tapi[u]), V)
                      /\ PathOf(tapi[u]) = PathOf(tapi[t]))
                   => ~(terr[t] = "" /\ terr[u] = "")

\* C15 witness: `get /x` was accepted and `GET /x`, arriving later, has
\* failed as a duplicate of it.
C15_Witness ==
    \E t \in Tasks : \E u \in Tasks :
        /\ tpc[t] = "done" /\ tpc[u] = "done"
        /\ MethodOf(tapi[t]) = <<"get">> /\ MethodOf(tapi[u]) = <<"GET">>
        /\ Len(Fields(tapi[u])) = 3
        /\ PathOf(tapi[t]) = PathOf(tapi[u])
        /\ terr[t] = "" /\ terr[u] = "ErrDuplicateRoute"
        /\ doc.Paths[PathOf(tapi[t])]["Get"] = to[t]

\* C26 (a failed add leaves the Document unchanged): a getOperation call
\* that returns an error leaves the paths map with the keys it had and every
\* PathItem with the slots it had.
C26_FailedAddLeavesDocument ==
    [][\A t \in Tasks :
         (tpc[t] = "locked" /\ tpc'[t] = "got" /\ terr'[t] # "") =>
            /\ DOMAIN doc'.Paths = DOMAIN doc.Paths
            /\ \A k \in DOMAIN doc.Paths : doc'.Paths[k] = doc.Paths[k]]_vars




\* ------------------------------------------------------------------------
\* One file lexed on its own
\* ------------------------------------------------------------------------

\* phpDocBlock.EndFunc run to its return with the tokens t1, t2: whether a
\* terminator was found and the position left.
RECURSIVE PHPEndFunc(_, _, _, _)
PHPEndFunc(data, pos, t1, t2) ==
    IF AtEOF(data, pos) THEN [ok |-> FALSE, pos |-> pos]
    ELSE IF Match(data, pos, t1) THEN [ok |-> TRUE, pos |-> pos + Len(t1)]
    ELSE IF Match(data, pos, t2) THEN [ok |-> TRUE, pos |-> pos + Len(t2)]
    ELSE PHPEndFunc(data, pos + 1, t1, t2)

\* parseFile of URI u from offset pos on, no other goroutine running: the
\* blocks it sends, its diagnostics, the here-doc regions it skips (pairs of
\* offsets) and whether it panics.
RECURSIVE LexFrom(_, _, _)
LexFrom(u, pos, acc) ==
    LET data == files[u].data
        b    == FindBlock(data, pos)
    IN  CASE b.kind = "none" -> acc
          [] b.kind = "panic" -> [acc EXCEPT !.panic = TRUE]
          [] b.kind = "comment" ->
                LET e == CommentEndFunc(data, b.start, b.pos)
                IN  IF ~e.ok
                    THEN [acc EXCEPT !.msgs = Append(@,
                            Msg(u, LineOf(data, b.start), "ErrNotFoundEndFlag"))]
                    ELSE IF RawIsEmpty(e.raw) THEN LexFrom(u, e.pos, acc)
                    ELSE LexFrom(u, e.pos, [acc EXCEPT !.sent = Append(@,
                            MakeBlock(u, b.start, e.pos, e.data, e.raw))])
          [] b.kind = "php" ->
                LET e == PHPEndFunc(data, b.pos, Token1(b.token), Token2(b.token))
                    a == [acc EXCEPT !.here = @ \cup {<<b.start, e.pos>>}]
                IN  IF ~e.ok
                    THEN [a EXCEPT !.msgs = Append(@,
                            Msg(u, LineOf(data, b.start), "ErrNotFoundEndFlag"))]
                    ELSE LexFrom(u, e.pos, a)

LexAlone(u) ==
    IF files[u].err # ""
    THEN [sent |-> <<>>, msgs |-> <<Msg(u, 0, files[u].err)>>, here |-> {}, panic |-> FALSE]
    ELSE LexFrom(u, 0, [sent |-> <<>>, msgs |-> <<>>, here |-> {}, panic |-> FALSE])

\* The pipeline under the scheduler's fairness: a goroutine that can take a
\* step eventually takes it.
FairSpec ==
    /\ Init /\ [][Next]_vars
    /\ WF_vars(Spawn) /\ WF_vars(Wait) /\ WF_vars(Close) /\ WF_vars(Receive)
    /\ WF_vars(ConsumerExit) /\ WF_vars(Await)
    /\ \A u \in URIs :
         /\ WF_vars(ReadFile(u)) /\ WF_vars(NextBlock(u)) /\ WF_vars(StoreToken2(u))
         /\ WF_vars(EndPHP1(u)) /\ WF_vars(EndPHP2(u)) /\ WF_vars(EndComment(u))
         /\ WF_vars(Send(u)) /\ WF_vars(Finish(u))


\* ------------------------------------------------------------------------
\* Claims about the pipeline
\* ------------------------------------------------------------------------

\* The blocks of file u in a sequence of blocks, in order.
OfFile(blocks, u) == SelectSeq(blocks, LAMBDA b : b.File = u)

\* parseFile of u reported that a terminator is missing.
HasEndFlagDiag(u) == \E i \in 1..Len(msgs[u]) : msgs[u][i].Key = "ErrNotFoundEndFlag"

\* parseFile of u has returned after reporting a diagnostic.
Failed(u) == pc[u] \in {"ret", "done"} /\ Len(msgs[u]) > 0

\* C3 (pipeline determinism): the second run on the same files ends with a
\* Document structurally equal to the first run's.
C3_Deterministic ==
    (run = 2 /\ mpc = "done") => prevDoc = <<DocView(doc, heap)>>

\* C4 (the Block Registry is read-only during lexing): the blocks and the
\* diagnostics parseFile produces for a file are those it produces when the
\* file is lexed on its own, however the goroutines interleave.
C4_InterleavingIndependent ==
    \A u \in URIs :
        pc[u] = "done" => sent[u] = LexAlone(u).sent /\ msgs[u] = LexAlone(u).msgs

\* C5 (join before close): once parseInputs has returned every parseFile
\* goroutine has returned, no block is sent afterwards, and no goroutine is
\* at a send when the channel is closed.
C5_JoinBeforeClose ==
    /\ [](mpc \in {"returned", "closed", "done"} => \A u \in URIs : pc[u] = "done")
    /\ [][(mpc \in {"returned", "closed", "done"}) => (sent' = sent)]_vars
    /\ [](closed => \A u \in URIs : pc[u] # "send")

\* C5 witness: parseInputs has returned and the channel is closed, after a
\* goroutine sent a block.
C5_Witness == mpc = "closed" /\ closed /\ \E u \in URIs : Len(sent[u]) > 0

\* C6 (a failure in one file does not abort the pipeline): once one file's
\* parseFile has failed, every other file's parseFile runs to completion.
C6_OthersComplete ==
    \A u \in URIs : \A v \in URIs \ {u} : Failed(u) ~> (pc[v] = "done")

C8_Unterminated ==
    /\ [][\A u \in URIs :
            (pc[u] \in {"end1", "endc"} /\ pc'[u] = "ret") => HasEndFlagDiag(u)']_vars
    /\ [](\A u \in URIs : HasEndFlagDiag(u) =>
            /\ pc[u] \in {"ret", "done"}
            /\ msgs[u] = <<Msg(u, LineOf(files[u].data, bstart[u]), "ErrNotFoundEndFlag")>>
            /\ \/ Match(files[u].data, bstart[u], HereOpen)
               \/ Match(files[u].data, bstart[u], CommentOpen)
            /\ \A i \in 1..Len(sent[u]) : sent[u][i].End.Offset <= bstart[u])

\* C8 witness: a comment opened on line 1 and never closed has been
\* reported, the file's goroutine is done, the other file sent a block.
C8_Witness ==
    \E u \in URIs : \E v \in URIs \ {u} :
        /\ pc[u] = "done"
        /\ msgs[u] = <<Msg(u, 1, "ErrNotFoundEndFlag")>>
        /\ LineOf(files[u].data, Len(files[u].data)) = 2
        /\ Len(sent[v]) > 0

\* C9 (empty blocks are dropped): no block with empty data is sent.
C9_EmptyDropped ==
    \A u \in URIs : \A i \in 1..Len(sent[u]) : Len(sent[u][i].Data) > 0

\* C10 (no ghost blocks): no sent block lies in a here-doc / now-doc region
\* of its file.
C10_NoGhostBlocks ==
    \A u \in URIs : \A i \in 1..Len(sent[u]) : \A r \in LexAlone(u).here :
        sent[u][i].End.Offset <= r[1] \/ sent[u][i].Start.Offset >= r[2]

\* ------------------------------------------------------------------------
\* Claims about the here-doc Blocker (specification Spec)
\* ------------------------------------------------------------------------

\* The offsets at or after offset from at which the terminator of tag
\* stands: line feed, tag, line feed, or line feed, tag, semicolon, line feed.
TerminatorsFrom(data, from, tag) ==
    {p \in from..Len(data) :
        Match(data, p, <<NL>> \o tag \o <<NL>>) \/ Match(data, p, <<NL>> \o tag \o <<";", NL>>)}

\* The offset immediately after the terminator standing at offset p.
AfterTerminator(data, p, tag) ==
    IF Match(data, p, <<NL>> \o tag \o <<NL>>) THEN p + Len(tag) + 2 ELSE p + Len(tag) + 3

\* The least member of a non-empty set of offsets.
Least(S) == CHOOSE p \in S : \A q \in S : p <= q

\* C11 (begin is non-destructive): at every offset of every file, a
\* BeginFunc that returns false leaves the lexer position where it was, and
\* one that returns true stood on "<<<" and leaves the position past it; a
\* goroutine whose BeginFunc has just returned true stands right after the
\* "<<<" its block starts with.
C11_BeginNonDestructive ==
    \A u \in URIs :
        /\ \A p \in 0..Len(files[u].data) :
              LET b == PHPBeginFunc(files[u].data, p)
              IN  ~b.panic =>
                    IF b.ok
                    THEN Match(files[u].data, p, HereOpen) /\ b.pos >= p + 3
                    ELSE b.pos = p
        /\ pc[u] = "token2" =>
              /\ Match(files[u].data, bstart[u], HereOpen)
              /\ lpos[u] = bstart[u] + 3

\* C11 witness: a file starts with "<<<" and an empty tag, BeginFunc has
\* returned false there (after its l.pos -= 3), and the lexer has gone on to
\* the comment behind it; another file's BeginFunc has returned true.
C11_Witness ==
    \E u \in URIs : \E v \in URIs :
        /\ Match(files[u].data, 0, HereOpen)
        /\ ~PHPBeginFunc(files[u].data, 0).ok
        /\ ~PHPBeginFunc(files[u].data, 0).panic
        /\ pc[u] = "endc" /\ bstart[u] = 4
        /\ pc[v] = "token2" /\ lpos[v] = bstart[v] + 3

\* The tag a here-doc opening at offset start names: the rest of the line
\* after "<<<", without the quotes when it is written 'TAG'.
HereTag(data, start) ==
    LET l == LineRemainder(data, start + 3)
    IN  IF Len(l) >= 2 /\ l[1] = Quote /\ l[Len(l)] = Quote
        THEN SubSeq(l, 2, Len(l) - 1)
        ELSE l

\* C12 (here-doc terminator): when EndFunc has returned for the here-doc or
\* now-doc a goroutine opened, it returned true exactly when a terminator of
\* that here-doc's tag stands at or after the position BeginFunc left, and
\* then the position is immediately after the earliest one; otherwise it
\* returned false at EOF.
C12_Terminator ==
    \A u \in URIs :
        LET data == files[u].data
            b    == PHPBeginFunc(data, bstart[u])
            tag  == HereTag(data, bstart[u])
            T    == TerminatorsFrom(data, bstart[u] + 3, tag)
        IN  (b.ok /\ ~b.panic) =>
              /\ (pc[u] = "loop" /\ lpos[u] > bstart[u]) =>
                    /\ T # {}
                    /\ lpos[u] = AfterTerminator(data, Least(T), tag)
              /\ (pc[u] = "ret" /\ HasEndFlagDiag(u)) =>
                    /\ T = {}
                    /\ AtEOF(data, lpos[u])

\* The same for a file lexed with no other goroutine running: EndFunc run
\* with the tokens its own BeginFunc stored.
C12_TerminatorAlone ==
    \A u \in URIs : \A p \in 0..Len(files[u].data) :
        LET data == files[u].data
            b    == PHPBeginFunc(data, p)
            tag  == HereTag(data, p)
            T    == TerminatorsFrom(data, p + 3, tag)
            e    == PHPEndFunc(data, b.pos, Token1(b.token), Token2(b.token))
        IN  (b.ok /\ ~b.panic) =>
              IF T # {}
              THEN e.ok /\ e.pos = AfterTerminator(data, Least(T), tag)
              ELSE ~e.ok /\ AtEOF(data, e.pos)

\* ------------------------------------------------------------------------
\* Claims about the API parser (specification SpecParser)
\* ------------------------------------------------------------------------

\* The lower-cased name of the tag at index i of the stream.
NameAt(i) == ToLowerName(tags[i].name)

\* The tags function f has read so far, as indexes of the stream.
ReadBy(f) == {reads[k].tag : k \in {j \in 1..Len(reads) : reads[j].by = f}}

\* The tag names a sub-parser has a case for.
Handles(f) ==
    IF f = "api"
    THEN {"@apigroup", "@apitags", "@apiversion", "@apideprecated", "@apiquery", "@apiparam"}
    ELSE {"@apiheader", "@apiparam"}

\* The name a duplicate-tag error carries for a singleton tag.
SingletonName(n) ==
    CASE n = "@apigroup" -> "@apiGroup"
      [] n = "@apitags" -> "@apiTags"
      [] n = "@apiversion" -> "@apiVersion"
      [] OTHER -> "@apiDeprecated"

\* C14 (invalid verbs are rejected): when p.parseAPI has read an @api tag of
\* three fields whose first field is none of the eight methods, it has
\* failed with ErrInvalidValue on that tag.
C14_RejectsInvalidVerb ==
    \A i \in ReadBy("top") :
        (/\ NameAt(i) = "@api"
         /\ Len(Split(tags[i].data, 3)) = 3
         /\ ~\E V \in Verbs : Spells(Split(tags[i].data, 3)[1], V))
        => (ppc = "done" /\ perr = SyntaxError(i, "ErrInvalidValue", "@api"))

\* C16 (duplicate singleton tags): when the tags after @api hold a second
\* @apiGroup, @apiTags, @apiVersion or @apiDeprecated and the parser has read
\* it, the parser has failed with ErrDuplicateTag naming that tag, at the
\* second occurrence.
C16_DuplicateSingleton ==
    \A i \in ReadBy("api") : \A j \in ReadBy("api") :
        (/\ i < j
         /\ NameAt(i) = NameAt(j)
         /\ NameAt(i) \in {"@apigroup", "@apitags", "@apiversion", "@apideprecated"})
        => /\ ppc = "done"
           /\ perr.key = "ErrDuplicateTag"
           /\ perr.arg = SingletonName(NameAt(i))
           /\ i < perr.at /\ perr.at <= j

\* C17 (duplicate @api): when the stream holds two @api tags and the parser
\* has read the second one, it has failed with ErrDuplicateTag("@api") on
\* that tag.
C17_DuplicateApi ==
    \A i \in 1..Len(tags) : \A j \in 1..Len(tags) :
        (/\ i < j
         /\ NameAt(i) = "@api" /\ NameAt(j) = "@api"
         /\ \A k \in 1..(j - 1) : NameAt(k) = "@api" => k = i
         /\ tpos >= j)
        => (ppc = "done" /\ perr = SyntaxError(j, "ErrDuplicateTag", "@api"))

\* C18 (tag pushback): when obj.parseRequest or obj.parseAPI has read a tag
\* it has no case for, it has stopped and the tag is the next one l.tag()
\* hands out, to p.parseAPI.
C18_Pushback ==
    \A k \in 1..Len(reads) :
        (reads[k].by \in {"api", "request"}
            /\ NameAt(reads[k].tag) \notin Handles(reads[k].by))
        => IF k = Len(reads)
           THEN ppc = "top" /\ tpos = reads[k].tag - 1
           ELSE reads[k + 1] = [by |-> "top", tag |-> reads[k].tag]

\* The valid semver strings X.Y.Z[-pre][+build] over the chunks in use.
SemVers ==
    LET N == {"0", "1", "2", "10"}
        I == N \cup {"rc", "b7"}
        core == {<<a, ".", b, ".", c>> : <<a, b, c>> \in N \X N \X N}
        pre == {<<>>} \cup {<<"-", x>> : x \in I}
        build == {<<>>} \cup {<<"+", x>> : x \in I}
    IN  {t[1] \o t[2] \o t[3] : t \in core \X pre \X build}

RECURSIVE TrimRight(_)
TrimRight(x) ==
    IF Len(x) > 0 /\ x[Len(x)] = " " THEN TrimRight(SubSeq(x, 1, Len(x) - 1)) ELSE x

\* The comma-separated items of an @apiTags value, each trimmed.
RECURSIVE Items(_)
Items(data) ==
    LET i == IndexFrom(data, ",", 0)
    IN  IF i = Len(data) THEN <<TrimRight(TrimLeft(data))>>
        ELSE <<TrimRight(TrimLeft(Slice(data, 0, i)))>> \o Items(Slice(data, i + 1, Len(data)))

\* s is a prefix of t.
IsPrefix(s, t) == Len(s) <= Len(t) /\ s = SubSeq(t, 1, Len(s))

\* C20 (tags split): when obj.parseAPI has read the block's @apiTags, the
\* tags of the api are the comma-separated items of its value, each trimmed
\* and in order (a prefix of them while the splitting loop is running).
C20_TagsSplit ==
    \A i \in ReadBy("api") :
        (/\ NameAt(i) = "@apitags"
         /\ \A k \in ReadBy("api") : (k < i => NameAt(k) # "@apitags"))
        => /\ ppc # "panic"
           /\ IF ppc = "tagsloop"
              THEN IsPrefix(obj.tags, Items(tags[i].data))
              ELSE obj.tags = Items(tags[i].data)

\* C28 (BeginFunc is total): no goroutine's BeginFunc panics on the slice
\* token[1 : len(token)-1], at whatever offset of whatever file it is asked.
C28_BeginTotal ==
    /\ \A u \in URIs : pc[u] # "panic"
    /\ ~crashed

\* C22 (exactly-once delivery and termination of the fan-out): with the
\* consumer receiving, every parseFile goroutine eventually returns and
\* parseInputs eventually returns; at every moment the blocks a file has sent
\* are, in order and once each, the ones received or still in the channel,
\* and in the end all of them have been received.
C22_FanOutTerminates ==
    /\ \A u \in URIs : <>(pc[u] = "done")
    /\ <>(mpc # "spawn")
    /\ [](\A u \in URIs : OfFile(recv \o chan, u) = sent[u])
    /\ <>(\A u \in URIs : pc[u] = "done" /\ OfFile(recv, u) = sent[u])

\* C27 (tag parsing terminates): obj.parseAPI, once called, returns (to
\* p.parseAPI, with nil or with an error), whatever the tags and their
\* values are.
C27_TagParsingTerminates == (ppc = "api") ~> (ppc \in {"top", "done"})

\* C21 (nested schema): every @apiParam that follows an @apiRequest in the
\* block and that the parser has read is a property of the request schema,
\* under the chain of object properties its dotted name spells, with the
\* type the tag gives.
C21_NestedSchema ==
    \A i \in 1..Len(tags) : \A j \in 1..Len(tags) :
        (/\ i < j /\ j <= tpos
         /\ NameAt(i) = "@apirequest" /\ Len(Split(tags[i].data, 2)) = 2
         /\ \A k \in (i + 1)..j : NameAt(k) = "@apiparam" /\ Len(Split(tags[k].data, 4)) = 4)
        => /\ obj.request # <<>>
           /\ LET f == Split(tags[j].data, 4)
              IN  \E q \in obj.request[1].properties :
                     /\ q.path = SplitN(f[1], ".", Len(f[1]) + 1)
                     /\ q.type = f[2]

\* ---------------------------------------------------------------------
\* File discovery: recursivePath (internal/lang/php.go).
\* A path is the sequence of its elements; the file system below Dir is a
\* function from paths to "dir" or "file".

\* o.Exts
Exts == {".php"}

\* filepath.Ext of a path: the suffix of its last element from its last dot.
Ext(path) ==
    LET name == path[Len(path)]
    IN  CASE name \in {"a.php", "lib.php", "v1.php", "d.php", "c.php"} -> ".php"
          [] name \in {"b.txt"} -> ".txt"
          [] OTHER -> ""

extIsEnabled(ext) == ext \in Exts

\* core.FileURI: the URI of a local path.
FileURI(path) == [scheme |-> "file", path |-> path]

\* The order in which filepath.Walk visits the entries of one directory.
NameOrder == <<"a.php", "b.txt", "c.php", "d.php", "lib.php", "sub">>

Rank(name) == CHOOSE i \in 1..Len(NameOrder) : NameOrder[i] = name

Parent(path) == SubSeq(path, 1, Len(path) - 1)

\* The entries of directory `path`, sorted by name.
RECURSIVE SortedPaths(_)
SortedPaths(S) ==
    IF S = {} THEN <<>>
    ELSE LET first == CHOOSE x \in S :
                        \A y \in S : Rank(x[Len(x)]) <= Rank(y[Len(y)])
         IN  <<first>> \o SortedPaths(S \ {first})

Children(tree, path) ==
    SortedPaths({q \in DOMAIN tree : Len(q) = Len(path) + 1 /\ Parent(q) = path})

\* The directories recursivePath is run on, and what they may hold:
\* each entry relative to Dir, with the kinds it may have.
Dirs == {<<"src">>, <<"v1.php">>}

Entries ==
    {<<<<"a.php">>, "file">>, <<<<"b.txt">>, "file">>,
     <<<<"lib.php">>, "file">>, <<<<"lib.php">>, "dir">>,
     <<<<"lib.php", "d.php">>, "file">>,
     <<<<"sub">>, "dir">>, <<<<"sub", "c.php">>, "file">>}

\* A set of entries is a file system when no path has two kinds and the
\* parent of every entry is a directory of the set.
IsTree(E) ==
    /\ \A e \in E : \A f \in E : e[1] = f[1] => e = f
    /\ \A e \in E : Len(e[1]) > 1 => <<Parent(e[1]), "dir">> \in E

TreeOf(dir, E) ==
    [q \in {dir} \cup {dir \o e[1] : e \in E} |->
        IF q = dir THEN "dir"
        ELSE (CHOOSE e \in E : dir \o e[1] = q)[2]]

InitWalk ==
    /\ InitDocVars
    /\ locker = Nil
    /\ lockOrder = <<>>
    /\ tapi = [t \in Tasks |-> TaskAPIs[1]]
    /\ tpc = [t \in Tasks |-> "done"]
    /\ terr = [t \in Tasks |-> ""]
    /\ to = [t \in Tasks |-> Nil]
    /\ files = [u \in URIs |-> File(<<>>)]
    /\ IdlePipe
    /\ IdleParse
    /\ IdleXML
    /\ wdir \in Dirs
    /\ wrec \in BOOLEAN
    /\ \E E \in SUBSET Entries : IsTree(E) /\ wtree = TreeOf(wdir, E)
    /\ wq = <<wdir>>
    /\ wuris = <<>>
    /\ wpc = "walk"

WalkFrame == UNCHANGED <<docVars, taskVars, pipeVars, parseVars, xmlVars, wtree, wdir, wrec>>

\* One call of the walk function by filepath.Walk, on the next path in
\* lexical order, and what Walk does with its result: after SkipDir it
\* leaves the directory's entries out, after nil on a directory it goes
\* on with the entries of that directory.
WalkVisit ==
    /\ wpc = "walk"
    /\ wq # <<>>
    /\ LET path == Head(wq)
           IsDir == wtree[path] = "dir"
       IN  IF IsDir /\ ~wrec /\ path # wdir
           THEN /\ wq' = Tail(wq)
                /\ wuris' = wuris
           ELSE /\ wuris' = IF extIsEnabled(Ext(path))
                            THEN Append(wuris, FileURI(path))
                            ELSE wuris
                /\ wq' = (IF IsDir THEN Children(wtree, path) ELSE <<>>) \o Tail(wq)
    /\ wpc' = wpc
    /\ WalkFrame

\* filepath.Walk has visited everything: recursivePath returns uris.
WalkReturn ==
    /\ wpc = "walk"
    /\ wq = <<>>
    /\ wpc' = "returned"
    /\ UNCHANGED <<wq, wuris>>
    /\ WalkFrame

NextWalk ==
    \/ WalkVisit
    \/ WalkReturn

SpecWalk == InitWalk /\ [][NextWalk]_vars

\* C23: when recursivePath has returned, every URI it returns is a regular
\* file below Dir whose extension is in Exts; with Recursive = false the
\* URIs are those of exactly such files directly inside Dir, with
\* Recursive = true those of such files in Dir and in every subdirectory.
C23_FileDiscovery ==
    wpc = "returned" =>
        LET wanted == {q \in DOMAIN wtree :
                          /\ wtree[q] = "file"
                          /\ Ext(q) \in Exts
                          /\ wrec \/ Parent(q) = wdir}
        IN  {wuris[i].path : i \in 1..Len(wuris)} = wanted

\* ---------------------------------------------------------------------
\* The XML decoder: Decode, node.decode, node.decodeElements,
\* decodeElement, decodeSlice and findEndElement.
\* The parser p is the sequence of tokens p.Token() hands out, then io.EOF.

\* The longest token sequence.
MaxTokens == 4

StartElement(name, close) == [t |-> "StartElement", name |-> name, close |-> close]

EndElement(name) == [t |-> "EndElement", name |-> name, close |-> FALSE]

String == [t |-> "String", name |-> "", close |-> FALSE]

Tokens ==
    {StartElement("a", FALSE), StartElement("x", FALSE), StartElement("x", TRUE),
     StartElement("b", FALSE), EndElement("a"), EndElement("x"), EndElement("b"),
     String}

TokenStreams == UNION {[1..n -> Tokens] : n \in 0..MaxTokens}

\* n.elems of the node made for an element: the fields of the decoded
\* type that hold child elements, each with its element name and whether
\* the field is a slice.  An element b has text only.
Elems(name) ==
    IF name = "b" THEN {}
    ELSE {[name |-> "x", kind |-> "Slice"], [name |-> "b", kind |-> "Struct"]}

\* n.elem(name): the field for the child element `name`; its kind is
\* "Invalid" when the type has none (found = false).
elem(n, name) ==
    IF \E v \in Elems(n) : v.name = name
    THEN CHOOSE v \in Elems(n) : v.name = name
    ELSE [name |-> "", kind |-> "Invalid"]

\* What p.Token() returns at the end of the tokens.
EOF == [t |-> "io.EOF", name |-> "", close |-> FALSE]

\* p.Token(): the next token, io.EOF after the last.
Token == IF xpos < Len(xtoks) THEN xtoks[xpos + 1] ELSE EOF

\* The calls that are running.
DecodeCall == [fn |-> "Decode", name |-> "", close |-> FALSE, slice |-> "", level |-> 0]

DecodeElementsCall(name) ==
    [fn |-> "decodeElements", name |-> name, close |-> FALSE, slice |-> "", level |-> 0]

DecodeSliceCall(start, slice) ==
    [fn |-> "decodeSlice", name |-> start.name, close |-> start.close,
     slice |-> slice, level |-> 0]

FindEndElementCall(name, level) ==
    [fn |-> "findEndElement", name |-> name, close |-> FALSE, slice |-> "", level |-> level]

Top == xstack[Len(xstack)]

Callers == SubSeq(xstack, 1, Len(xstack) - 1)

\* The element a call of decodeSlice is made with when it is called
\* on its own: an open element x for a slice of elements y.
SkippedStart == StartElement("x", FALSE)

InitXML ==
    /\ InitDocVars
    /\ locker = Nil
    /\ lockOrder = <<>>
    /\ tapi = [t \in Tasks |-> TaskAPIs[1]]
    /\ tpc = [t \in Tasks |-> "done"]
    /\ terr = [t \in Tasks |-> ""]
    /\ to = [t \in Tasks |-> Nil]
    /\ files = [u \in URIs |-> File(<<>>)]
    /\ IdlePipe
    /\ IdleParse
    /\ IdleWalk
    /\ xentry \in {"Decode", "decodeSlice"}
    /\ xtoks \in TokenStreams
    /\ xpos = 0
    /\ xstack = IF xentry = "Decode" THEN <<DecodeCall>>
                ELSE <<DecodeSliceCall(SkippedStart, "y")>>
    /\ xroot = FALSE
    /\ xres = ""

XMLFrame == UNCHANGED <<docVars, taskVars, pipeVars, parseVars, walkVars, xentry, xtoks>>

\* The innermost call returns err: a nil goes to its caller, which goes on
\* with its loop; an error is returned by every caller in turn.  The
\* outermost call's result is xres.
XMLReturn(err) ==
    IF err = "nil" /\ Callers # <<>>
    THEN /\ xstack' = Callers
         /\ xres' = xres
    ELSE /\ xstack' = <<>>
         /\ xres' = err

\* newNode(start.Name.Value, v).decode(p, start), made by the innermost
\* call: nothing is read for a self-closing element, else decodeElements
\* runs for the element.
NodeDecode(start, callers) ==
    /\ xstack' = IF start.close THEN callers
                 ELSE Append(callers, DecodeElementsCall(start.name))
    /\ xres' = IF start.close /\ callers = <<>> THEN "nil" ELSE xres

\* The closing test of decodeElements.
ClosesNode_m(e, name) == TRUE

ClosesNode(e, name) == e.name = name

\* One turn of the loop of Decode.
Decode ==
    /\ xstack # <<>>
    /\ Top.fn = "Decode"
    /\ LET t == Token
       IN  IF t = EOF
           THEN /\ XMLReturn("nil")
                /\ UNCHANGED <<xpos, xroot>>
           ELSE /\ xpos' = xpos + 1
                /\ CASE t.t = "StartElement" ->
                          IF xroot
                          THEN /\ XMLReturn("ErrInvalidXML")
                               /\ xroot' = xroot
                          ELSE /\ xroot' = TRUE
                               /\ NodeDecode(t, xstack)
                     [] t.t = "EndElement" ->
                          /\ XMLReturn("ErrInvalidXML")
                          /\ xroot' = xroot
                     [] OTHER ->
                          UNCHANGED <<xstack, xres, xroot>>
    /\ XMLFrame

\* One turn of the loop of node.decodeElements, with decodeElement for a
\* child element.
DecodeElements ==
    /\ xstack # <<>>
    /\ Top.fn = "decodeElements"
    /\ LET t == Token
       IN  IF t = EOF
           THEN /\ XMLReturn("ErrInvalidXML")
                /\ xpos' = xpos
           ELSE /\ xpos' = xpos + 1
                /\ CASE t.t = "EndElement" ->
                          IF ~ClosesNode(t, Top.name)
                          THEN XMLReturn("ErrInvalidXML")
                          ELSE XMLReturn("nil")
                     [] t.t = "StartElement" ->
                          LET item == elem(Top.name, t.name)
                          IN  IF item.kind = "Invalid"
                              THEN /\ xstack' = <<>>
                                   /\ xres' = "panic"
                              ELSE IF item.kind = "Slice"
                              THEN /\ xstack' = Append(xstack, DecodeSliceCall(t, item.name))
                                   /\ xres' = xres
                              ELSE NodeDecode(t, xstack)
                     [] OTHER ->
                          UNCHANGED <<xstack, xres>>
    /\ xroot' = xroot
    /\ XMLFrame

\* decodeSlice: an open element whose name is not the slice's is skipped
\* by findEndElement, any other element is decoded into a new item.
DecodeSlice ==
    /\ xstack # <<>>
    /\ Top.fn = "decodeSlice"
    /\ IF ~Top.close /\ Top.name # Top.slice
       THEN /\ xstack' = Append(Callers, FindEndElementCall(Top.name, 0))
            /\ xres' = xres
       ELSE NodeDecode(StartElement(Top.name, Top.close), Callers)
    /\ UNCHANGED <<xpos, xroot>>
    /\ XMLFrame

\* One turn of the loop of findEndElement.
FindEndElement ==
    /\ xstack # <<>>
    /\ Top.fn = "findEndElement"
    /\ LET t == Token
       IN  IF t = EOF
           THEN /\ XMLReturn("ErrInvalidXML")
                /\ xpos' = xpos
           ELSE /\ xpos' = xpos + 1
                /\ CASE t.t = "StartElement" ->
                          /\ xstack' = Append(Callers, FindEndElementCall(Top.name,
                                          IF t.name = Top.name THEN Top.level + 1
                                          ELSE Top.level))
                          /\ xres' = xres
                     [] t.t = "EndElement" ->
                          IF Top.level = 0 /\ t.name = Top.name
                          THEN XMLReturn("nil")
                          ELSE /\ xstack' = Append(Callers,
                                          FindEndElementCall(Top.name, Top.level - 1))
                               /\ xres' = xres
                     [] OTHER ->
                          UNCHANGED <<xstack, xres>>
    /\ xroot' = xroot
    /\ XMLFrame

NextXML ==
    \/ Decode
    \/ DecodeElements
    \/ DecodeSlice
    \/ FindEndElement

SpecXML == InitXML /\ [][NextXML]_vars

\* Where the element that is open at token i - 1 is closed, `open` being
\* the names of the elements opened inside it and still open: the index of
\* its EndElement, 0 when the tokens end before it, -1 when an element
\* inside it is closed by an EndElement of another name.
RECURSIVE CloseOf(_, _, _)
CloseOf(toks, i, open) ==
    IF i > Len(toks) THEN 0
    ELSE LET t == toks[i]
         IN  CASE t.t = "StartElement" /\ ~t.close ->
                    CloseOf(toks, i + 1, Append(open, t.name))
               [] t.t = "EndElement" ->
                    IF open = <<>> THEN i
                    ELSE IF open[Len(open)] = t.name
                    THEN CloseOf(toks, i + 1, SubSeq(open, 1, Len(open) - 1))
                    ELSE -1
               [] OTHER -> CloseOf(toks, i + 1, open)

\* C24: when decodeSlice skips the open element x by findEndElement and
\* the tokens after it are well nested, findEndElement returns nil if the
\* EndElement that closes x is among them, having read the tokens up to
\* and including that EndElement, and returns ErrInvalidXML if the tokens
\* end before it.
C24_FindEndElement ==
    LET c == CloseOf(xtoks, 1, <<>>)
    IN  (/\ xentry = "decodeSlice"
         /\ xres # ""
         /\ c >= 0
         /\ c > 0 => xtoks[c].name = SkippedStart.name)
        => /\ c > 0 => xres = "nil" /\ xpos = c
           /\ c = 0 => xres = "ErrInvalidXML"

\* The first token at which a document is not well formed, `open` being
\* the names of the open elements and root whether a top-level element
\* has been seen: a second top-level StartElement, a top-level EndElement,
\* an EndElement whose name is not that of the innermost open element, or
\* Len(toks) + 1 when the tokens end with an element open; 0 when there
\* is none.
RECURSIVE FirstError(_, _, _, _)
FirstError(toks, i, open, root) ==
    IF i > Len(toks) THEN (IF open = <<>> THEN 0 ELSE i)
    ELSE LET t == toks[i]
         IN  CASE t.t = "StartElement" ->
                    IF open = <<>> /\ root THEN i
                    ELSE FirstError(toks, i + 1,
                            IF t.close THEN open ELSE Append(open, t.name), TRUE)
               [] t.t = "EndElement" ->
                    IF open = <<>> \/ open[Len(open)] # t.name THEN i
                    ELSE FirstError(toks, i + 1, SubSeq(open, 1, Len(open) - 1), root)
               [] OTHER -> FirstError(toks, i + 1, open, root)

====
